---------------------------- MODULE Spec2Model ----------------------------
(***************************************************************************)
(* Model of the pull request reconciliation of cmd/pullrequest-init: the   *)
(* Download and the Upload pass of the GitHub handler (github/github.go)   *)
(* and of the GitLab handler (gitlab/gitlab.go) against a remote host that *)
(* holds commit statuses, labels and comments, and of AddOutputResources   *)
(* (pkg/reconciler/v1alpha1/taskrun/resources/output_resources.go).  One   *)
(* action is one remote call of a pass (a blocking round trip) together    *)
(* with the code around it.                                                *)
(*                                                                         *)
(* An error value is a sequence of error records: <<>> is Go's nil, a      *)
(* plain error is a sequence of length one, and multierror.Append is       *)
(* concatenation (go-multierror flattens a multierror argument).  A        *)
(* pointer is a sequence too: <<>> is nil, <<v>> points to v.              *)
(***************************************************************************)
EXTENDS Integers, Sequences, FiniteSets, TLC

\* ------------------------------------------------------------------ bounds
MaxStatuses == 3    \* longest desired status sequence
MaxLabels   == 2    \* longest desired label sequence
MaxComments == 2    \* longest desired comment sequence
MaxID       == 1    \* largest comment ID of the inputs that vary
MaxFailures == 2    \* remote calls that may fail in one run
MaxPasses   == 2    \* Upload calls in one run
MaxSteps    == 2    \* longest step list of a build before the upload step
MaxOutputs  == 2    \* longest result list and resource list of a task
MaxCalls    == 2    \* calls of AddOutputResources on one build
MaxPath     == 8    \* longest URL path, in pieces

\* -------------------------------------------------------------- vocabulary
GitHub == "github"
Gitlab == "gitlab"
Hosts == {GitHub, Gitlab}

\* The canonical status codes (types.StatusCode), as named in the tables.
CanonicalCodes ==
  {"Unknown", "Success", "Failure", "Error", "Neutral", "Queued",
   "InProgress", "Timeout", "Canceled", "ActionRequired"}

\* A StatusCode value that is in neither outbound table.
BogusCode == "Bogus"

LabelTexts == {"bug", "wip"}
CommentTexts == {"a", "b"}
StatusIDs == {"ci"}

\* The status contexts of the runs that look at more than one context.
Contexts == {"ci", "lint"}

\* A remote status value that is in neither inbound table.
BogusValue == "skipped"

\* ------------------------------------------------------------ status tables
\* toGitHub with Neutral sent as an error.
toGitHubNeutralError ==
  ("Unknown" :> "error") @@ ("Success" :> "success") @@
  ("Failure" :> "failure") @@ ("Error" :> "error") @@
  ("Neutral" :> "error") @@
  ("Queued" :> "pending") @@ ("InProgress" :> "pending") @@
  ("Timeout" :> "error") @@ ("Canceled" :> "error") @@
  ("ActionRequired" :> "error")

\* The outbound table of the GitHub handler, entry by entry.
toGitHub ==
  ("Unknown" :> "error") @@ ("Success" :> "success") @@
  ("Failure" :> "failure") @@ ("Error" :> "error") @@
  ("Neutral" :> "success") @@
  ("Queued" :> "pending") @@ ("InProgress" :> "pending") @@
  ("Timeout" :> "error") @@ ("Canceled" :> "error") @@
  ("ActionRequired" :> "error")

\* toGitlab without the entry of Timeout.
toGitlabNoTimeout ==
  ("Unknown" :> "failure") @@ ("Success" :> "success") @@
  ("Failure" :> "failure") @@ ("Error" :> "failure") @@
  ("Neutral" :> "success") @@
  ("Queued" :> "pending") @@ ("InProgress" :> "pending") @@
  ("Canceled" :> "cancelled") @@
  ("ActionRequired" :> "failure")

\* The outbound table of the GitLab handler, entry by entry.
toGitlab ==
  ("Unknown" :> "failure") @@ ("Success" :> "success") @@
  ("Failure" :> "failure") @@ ("Error" :> "failure") @@
  ("Neutral" :> "success") @@
  ("Queued" :> "pending") @@ ("InProgress" :> "pending") @@
  ("Timeout" :> "failure") @@ ("Canceled" :> "cancelled") @@
  ("ActionRequired" :> "failure")

\* The inbound table of the GitHub handler.
GitHubToTekton ==
  ("success" :> "Success") @@ ("failure" :> "Failure") @@
  ("error" :> "Error") @@ ("pending" :> "Queued")

\* GitlabToTekton without the entry of cancelled.
GitlabToTektonNoCancelled ==
  ("pending" :> "Queued") @@ ("running" :> "Queued") @@
  ("success" :> "Success") @@ ("failure" :> "Failure")

\* The inbound table of the GitLab handler.
GitlabToTekton ==
  ("pending" :> "Queued") @@ ("running" :> "Queued") @@
  ("success" :> "Success") @@ ("failure" :> "Failure") @@
  ("cancelled" :> "Error")

\* The outbound table of a host.
Outbound(h) == IF h = GitHub THEN toGitHub ELSE toGitlab

\* The inbound table of a host (each package names its own toTekton).
Inbound(h) == IF h = GitHub THEN GitHubToTekton ELSE GitlabToTekton

\* AfterUnknownCode when the first unknown code ends the loop.
AfterUnknownCodeReturn(n, len) == len + 1

\* uploadStatuses: after the error of a code that the table lacks is
\* appended the code says continue, and the loop goes on with the status
\* after status n of len.
AfterUnknownCode(n, len) == n + 1

\* StatusContext with the code sent as the context.
StatusContextByCode(s) == s.Code

\* uploadStatuses: the context a status is set under, its ID.
StatusContext(s) == s.ID

\* ------------------------------------------------------------------ helpers
Digit == <<"0", "1", "2", "3", "4", "5", "6", "7", "8", "9">>

RECURSIVE FormatUint(_)
FormatUint(n) ==
  IF n < 10 THEN Digit[n + 1]
  ELSE FormatUint(n \div 10) \o Digit[(n % 10) + 1]

\* strconv.FormatInt(n, 10)
FormatInt(n) == IF n < 0 THEN "-" \o FormatUint(0 - n) ELSE FormatUint(n)

\* multierror.Append(merr, err)
MultiAppend(m, e) == m \o e

Range(s) == {s[n] : n \in 1..Len(s)}

Min(S) == CHOOSE x \in S : \A y \in S : x <= y

Max(S) == CHOOSE x \in S : \A y \in S : y <= x

\* The elements of a set of integers in ascending order.
RECURSIVE Ascending(_)
Ascending(S) ==
  IF S = {} THEN <<>> ELSE <<Min(S)>> \o Ascending(S \ {Min(S)})

\* The elements of a finite set in some fixed order.
RECURSIVE SeqOf(_)
SeqOf(S) ==
  IF S = {} THEN <<>>
  ELSE LET x == CHOOSE y \in S : TRUE IN <<x>> \o SeqOf(S \ {x})

\* All sequences over S of length at most n.
SeqsUpTo(S, n) == UNION {[1..m -> S] : m \in 0..n}

EmptyMap == [x \in {} |-> ""]

\* An error record: the failed operation and what it was applied to.
Err(op, id, text) == [op |-> op, id |-> id, text |-> text]

\* A remote call as logged: the operation, the comment ID (0 if none), the
\* text (status context, label or comment body; "" if none), the label set
\* of a batched label call ({} otherwise), the status value sent ("" if
\* none) and whether the call succeeded.
Call(op, id, text, labels, state, ok) ==
  [op |-> op, id |-> id, text |-> text, labels |-> labels,
   state |-> state, ok |-> ok]


\* ------------------------------------------- decisions of the comment pass
\* uploadComments: the desired comments with a nonzero ID, keyed by ID; a
\* later comment overwrites an earlier one with the same ID.
ExistingComments(comments) ==
  [id \in {comments[n].ID : n \in 1..Len(comments)} \ {0} |->
     LET last == CHOOSE n \in 1..Len(comments) :
                   /\ comments[n].ID = id
                   /\ \A m \in (n + 1)..Len(comments) : comments[m].ID # id
     IN comments[last]]

\* NewComments when every desired comment counts as new.
NewCommentsAll(comments) == comments

\* uploadComments: the desired comments with ID 0, in order.
NewComments(comments) == SelectSeq(comments, LAMBDA c : c.ID = 0)

\* GitHubCommentAction with the manifest test inverted.
GitHubCommentActionInverted(ec, comments, manifest) ==
  IF ec.ID \notin DOMAIN comments
  THEN IF FormatInt(ec.ID) \in manifest THEN "skip" ELSE "delete"
  ELSE IF comments[ec.ID].Text # ec.Body THEN "update" ELSE "none"

\* GitHub updateExistingComments: what the loop body does with the remote
\* comment ec ("skip", "delete", "update" or "none").
GitHubCommentAction(ec, comments, manifest) ==
  IF ec.ID \notin DOMAIN comments
  THEN IF FormatInt(ec.ID) \notin manifest THEN "skip" ELSE "delete"
  ELSE IF comments[ec.ID].Text # ec.Body THEN "update" ELSE "none"

\* GitlabCommentAction without the comparison of the texts.
GitlabCommentActionAlwaysUpdate(ec, comments, manifest) ==
  IF FormatInt(ec.ID) \notin manifest THEN "skip"
  ELSE IF ec.ID \notin DOMAIN comments THEN "delete"
  ELSE "update"

\* GitLab updateExistingComments: the same decision for the note ec.
GitlabCommentAction(ec, comments, manifest) ==
  IF FormatInt(ec.ID) \notin manifest THEN "skip"
  ELSE IF ec.ID \notin DOMAIN comments THEN "delete"
  ELSE IF comments[ec.ID].Text # ec.Body THEN "update" ELSE "none"

CommentAction(h, ec, comments, manifest) ==
  IF h = GitHub THEN GitHubCommentAction(ec, comments, manifest)
  ELSE GitlabCommentAction(ec, comments, manifest)

\* --------------------------------------------- decisions of the label pass
\* GitHub uploadLabels: the map built from the desired labels.
LabelSet(raw) == Range(raw)

\* GitHub uploadLabels: the labels to create, those desired and not current.
GitHubCreate(labels, current) == {l \in labels : l \notin current}

\* GitHubRemove without the test against the manifest.
GitHubRemoveUntracked(labels, current, manifest) ==
  {l \in current : l \notin labels}

\* GitHub uploadLabels: the current labels the removal loop removes.
GitHubRemove(labels, current, manifest) ==
  {l \in current : l \notin labels /\ l \in manifest}

\* GitHub uploadLabels, its last line: the function returns err, the error
\* of the list call, whatever merr has accumulated.
GitHubUploadLabelsResult(err, merr) == err

\* GitLab uploadLabels: the desired labels followed by the labels of the
\* merge request that the manifest does not hold.
GitlabLabelNames(labels, mrLabels, manifest) ==
  labels \o SelectSeq(mrLabels, LAMBDA l : l \notin manifest)

\* CallerLabels when the appends reach the slice of the caller.
CallerLabelsAliased(labels, appended) == appended

\* GitLab uploadLabels appends to labels, its parameter: a slice is passed
\* by value, so the caller's slice keeps its length and its elements, and
\* the caller's labels after the appends are the labels before them.
CallerLabels(labels, appended) == labels

\* GitLab uploadLabels: the update is called only with a label to set.
GitlabCallsUpdate(labelNames) == Len(labelNames) > 0

\* UploadCommentsErr when the error of updateExistingComments is dropped.
UploadCommentsErrDropped(merr, err) == merr

\* uploadComments: the error err that updateExistingComments returned, when
\* it is not nil, is appended to the function's own merr.
UploadCommentsErr(merr, err) == MultiAppend(merr, err)

\* FirstNewComment when uploadComments returns at the first error.
FirstNewCommentFailFast(err, new) == IF err # <<>> THEN Len(new) + 1 ELSE 1

\* uploadComments: createNewComments is called whatever error err
\* updateExistingComments returned, and its loop starts at the first of the
\* new comments.
FirstNewComment(err, new) == 1

\* -------------------------------------------------------- phases of Upload
\* NextPhase when Upload calls uploadComments before uploadLabels.
NextPhaseCommentsFirst(phase) ==
  CASE phase = "statuses" -> "comments"
    [] phase = "comments" -> "labels"
    [] phase = "labels" -> "done"

\* Upload: uploadStatuses, uploadLabels and uploadComments are called in
\* this order, each after the one before it has returned, whatever it
\* returned; then Upload returns.
NextPhase(phase) ==
  CASE phase = "statuses" -> "labels"
    [] phase = "labels" -> "comments"
    [] phase = "comments" -> "done"

\* ---------------------------------------------------- fail-fast decisions
\* LoopNext when a failed call ends the loop.
LoopNextFailFast(ok, n, len) == IF ok THEN n + 1 ELSE len + 1

\* After a call inside a loop, failed or not, the code says continue or
\* falls through to the end of the loop body: the loop goes on with the
\* item after item n of len.
LoopNext(ok, n, len) == n + 1


\* -------------------------------------------------------------------- state
VARIABLES
  host,        \* which handler runs the pass
  pr,          \* the caller's PullRequest: Statuses, Labels, Comments
  manifests,   \* the caller's manifests: labels, comments
  rStatuses,   \* remote: status context -> status value
  rLabels,     \* remote: the label set of the request
  rComments,   \* remote: comment ID -> body
  nextID,      \* remote: the ID the next created comment gets
  pc,          \* the position of the pass
  idx,         \* the index of the running loop
  uerr,        \* Upload's merr
  cerr,        \* uploadComments' merr
  merr,        \* the merr of the innermost running function
  current,     \* uploadLabels: the labels fetched from the remote
  create,      \* GitHub uploadLabels: the labels to add
  labelNames,  \* GitLab uploadLabels: the labels to set
  todo,        \* GitHub uploadLabels: the removals still to make
  fetched,     \* updateExistingComments: the comments fetched
  calls,       \* the remote calls of this pass, in order
  nfail,       \* how many remote calls have failed in this run
  pass,        \* which Upload call of the run this is
  start,       \* the remote as it was when this pass started
  prev,        \* the remote as it was when the previous pass started
  dpr,         \* Download: its pr, <<>> while nil
  ret,         \* Download: what it returned, pr (<<>> if nil) and err
  added,       \* the labels another actor added during the label pass
  build,       \* AddOutputResources: the build its argument points to
  task,        \* AddOutputResources: the task, Outputs <<>> if nil
  got,         \* AddOutputResources: the build returned, <<>> before
  ncalls,      \* AddOutputResources: the calls made on the build so far
  build0,      \* AddOutputResources: the build as it was before the calls
  raw,         \* parseGitlabURL: its argument, as url.Parse reads it
  parsed       \* parseGitlabURL: what it returned, <<>> before

vars ==
  <<host, pr, manifests, rStatuses, rLabels, rComments, nextID, pc, idx,
    uerr, cerr, merr, current, create, labelNames, todo, fetched, calls,
    nfail, pass, start, prev, dpr, ret, added, build, task, got, ncalls,
    build0, raw, parsed>>

remoteVars == <<rStatuses, rLabels, rComments, nextID>>
inputVars == <<host, pr, manifests>>
labelLocals == <<current, create, labelNames, todo>>
history == <<pass, start, prev>>
downloadVars == <<dpr, ret>>
outputVars == <<build, task, got, ncalls, build0>>
urlVars == <<raw, parsed>>
otherVars == <<downloadVars, added, outputVars, urlVars>>

Remote == [statuses |-> rStatuses, labels |-> rLabels, comments |-> rComments]

StatusValues == [ID : StatusIDs, Code : CanonicalCodes \cup {BogusCode}]
CommentValues == [ID : 0..MaxID, Text : CommentTexts]

\* The remote comment stores: any subset of the IDs 1..MaxID, any bodies.
RemoteCommentStates ==
  UNION {[ids -> CommentTexts] : ids \in SUBSET (1..MaxID)}

\* The manifest keys of the comments: decimal strings.
CommentKeys == {FormatInt(n) : n \in 1..MaxID}

\* Download has not run: it has no pr and has returned nothing.
NoDownload ==
  /\ dpr = <<>>
  /\ ret = [pr |-> <<>>, err |-> <<>>]

\* No build is being given its upload step.
NoOutputs ==
  /\ build = [Steps |-> <<>>]
  /\ task = [Outputs |-> <<>>]
  /\ got = <<>>
  /\ ncalls = 0
  /\ build0 = build

\* No URL is being parsed.
NoParse ==
  /\ raw = [Path |-> <<>>, Valid |-> TRUE]
  /\ parsed = <<>>

\* The state after the handler is constructed, at the position p: the
\* caller's inputs and the remote drawn from the sets given (the hosts, the
\* desired status sequences, the desired label sequences, the remote label
\* sets, the label manifests, the desired comment sequences, the remote
\* comment stores, the comment manifests and the remote status stores).
InitPass(hs, sts, lss, rls, lms, css, rcs, cms, rss, p) ==
  /\ host \in hs
  /\ \E st \in sts, ls \in lss, cs \in css :
       pr = [Statuses |-> st, Labels |-> ls, Comments |-> cs]
  /\ \E lm \in lms, cm \in cms :
       manifests = [labels |-> lm, comments |-> cm]
  /\ rStatuses \in rss
  /\ rLabels \in rls
  /\ rComments \in rcs
  /\ nextID = Max(DOMAIN rComments \cup {MaxID}) + 1
  /\ pc = p
  /\ idx = 1
  /\ uerr = <<>>
  /\ cerr = <<>>
  /\ merr = <<>>
  /\ current = {}
  /\ create = {}
  /\ labelNames = <<>>
  /\ todo = {}
  /\ fetched = <<>>
  /\ calls = <<>>
  /\ nfail = 0
  /\ pass = 1
  /\ start = Remote
  /\ prev = Remote
  /\ added = {}

\* The state before Upload is called on inputs the caller made itself,
\* against a remote that holds no status.
InitFrom(hs, sts, lss, rls, lms, css, rcs, cms) ==
  /\ InitPass(hs, sts, lss, rls, lms, css, rcs, cms, {EmptyMap}, "statuses")
  /\ NoDownload
  /\ NoOutputs
  /\ NoParse

\* A remote call succeeds or fails; at most MaxFailures calls of a run fail.
Outcomes == IF nfail < MaxFailures THEN {TRUE, FALSE} ELSE {TRUE}

Failed(ok) == IF ok THEN nfail ELSE nfail + 1

\* ----------------------------------------------------------------- statuses
\* uploadStatuses, one turn of the loop: look the code up in the outbound
\* table and set the commit status for the context.
UploadStatus ==
  /\ pc = "statuses"
  /\ idx <= Len(pr.Statuses)
  /\ LET s == pr.Statuses[idx]
         table == Outbound(host)
     IN IF s.Code \notin DOMAIN table
        THEN /\ merr' = MultiAppend(merr, <<Err("UnknownStatusCode", 0, s.Code)>>)
             /\ idx' = AfterUnknownCode(idx, Len(pr.Statuses))
             /\ UNCHANGED <<rStatuses, calls, nfail>>
        ELSE \E ok \in Outcomes :
             /\ calls' = Append(calls, Call("SetStatus", 0, StatusContext(s), {},
                                           table[s.Code], ok))
             /\ rStatuses' =
                  IF ok
                  THEN [c \in DOMAIN rStatuses \cup {StatusContext(s)} |->
                          IF c = StatusContext(s) THEN table[s.Code]
                          ELSE rStatuses[c]]
                  ELSE rStatuses
             /\ merr' = IF ok THEN merr
                        ELSE MultiAppend(merr, <<Err("SetStatus", 0, StatusContext(s))>>)
             /\ nfail' = Failed(ok)
             /\ idx' = LoopNext(ok, idx, Len(pr.Statuses))
  /\ UNCHANGED <<otherVars, inputVars, rLabels, rComments, nextID, pc, uerr, cerr,
                 labelLocals, fetched, history>>

\* uploadStatuses returns merr and Upload appends it when it is not nil.
StatusesReturn ==
  /\ pc = "statuses"
  /\ idx > Len(pr.Statuses)
  /\ uerr' = MultiAppend(uerr, merr)
  /\ merr' = <<>>
  /\ idx' = 1
  /\ pc' = NextPhase("statuses")
  /\ UNCHANGED <<otherVars, inputVars, remoteVars, cerr, labelLocals, fetched, calls,
                 nfail, history>>

\* ------------------------------------------------------------ labels, GitHub
\* GitHub uploadLabels up to the list call: a failed list returns its error
\* at once; otherwise current and create are computed.
GitHubListLabels ==
  /\ pc = "labels"
  /\ host = GitHub
  /\ \E ok \in Outcomes :
       /\ calls' = Append(calls, Call("ListLabels", 0, "", {}, "", ok))
       /\ nfail' = Failed(ok)
       /\ IF ok
          THEN /\ current' = rLabels
               /\ create' = GitHubCreate(LabelSet(pr.Labels), rLabels)
               /\ pc' = "labels_add"
               /\ UNCHANGED uerr
          ELSE /\ uerr' = MultiAppend(uerr, <<Err("ListLabels", 0, "")>>)
               /\ pc' = NextPhase("labels")
               /\ UNCHANGED <<current, create>>
  /\ UNCHANGED <<otherVars, inputVars, remoteVars, idx, cerr, merr, labelNames, todo,
                 fetched, history>>

\* GitHub uploadLabels: the batched AddLabelsToIssue call, made with create
\* whatever it holds, then the removal loop is entered.
GitHubAddLabels ==
  /\ pc = "labels_add"
  /\ \E ok \in Outcomes :
       /\ calls' = Append(calls, Call("AddLabels", 0, "", create, "", ok))
       /\ nfail' = Failed(ok)
       /\ rLabels' = IF ok THEN rLabels \cup create ELSE rLabels
       /\ merr' = IF ok THEN merr
                  ELSE MultiAppend(merr, <<Err("AddLabels", 0, "")>>)
  /\ todo' = GitHubRemove(LabelSet(pr.Labels), current, manifests.labels)
  /\ pc' = "labels_remove"
  /\ UNCHANGED <<otherVars, inputVars, rStatuses, rComments, nextID, idx, uerr, cerr,
                 current, create, labelNames, fetched, history>>

\* GitHub uploadLabels, one turn of the removal loop; the loop ranges over
\* a map, so the order of the removals is not fixed.
GitHubRemoveLabel ==
  /\ pc = "labels_remove"
  /\ \E l \in todo, ok \in Outcomes :
       /\ calls' = Append(calls, Call("RemoveLabel", 0, l, {}, "", ok))
       /\ nfail' = Failed(ok)
       /\ rLabels' = IF ok THEN rLabels \ {l} ELSE rLabels
       /\ merr' = IF ok THEN merr
                  ELSE MultiAppend(merr, <<Err("RemoveLabel", 0, l)>>)
       /\ todo' = todo \ {l}
  /\ UNCHANGED <<otherVars, inputVars, rStatuses, rComments, nextID, pc, idx, uerr,
                 cerr, current, create, labelNames, fetched, history>>

\* GitHub uploadLabels returns and Upload appends what it returned.  The
\* list call succeeded, so err is nil here.
GitHubLabelsReturn ==
  /\ pc = "labels_remove"
  /\ todo = {}
  /\ uerr' = MultiAppend(uerr, GitHubUploadLabelsResult(<<>>, merr))
  /\ merr' = <<>>
  /\ current' = {}
  /\ create' = {}
  /\ pc' = NextPhase("labels")
  /\ UNCHANGED <<otherVars, inputVars, remoteVars, idx, cerr, labelNames, todo,
                 fetched, calls, nfail, history>>

\* ------------------------------------------------------------ labels, GitLab
\* GitLab uploadLabels up to the GetMergeRequest call: a failed call returns
\* its error at once; otherwise labelNames is computed.
GitlabGetMergeRequest ==
  /\ pc = "labels"
  /\ host = Gitlab
  /\ \E ok \in Outcomes :
       /\ calls' = Append(calls, Call("GetMergeRequest", 0, "", {}, "", ok))
       /\ nfail' = Failed(ok)
       /\ IF ok
          THEN /\ current' = rLabels
               /\ labelNames' =
                    GitlabLabelNames(pr.Labels, SeqOf(rLabels), manifests.labels)
               /\ pr' = [pr EXCEPT !.Labels = CallerLabels(pr.Labels, labelNames')]
               /\ pc' = "labels_update"
               /\ UNCHANGED uerr
          ELSE /\ uerr' = MultiAppend(uerr, <<Err("GetMergeRequest", 0, "")>>)
               /\ pc' = NextPhase("labels")
               /\ UNCHANGED <<pr, current, labelNames>>
  /\ UNCHANGED <<otherVars, host, manifests, remoteVars, idx, cerr, merr, create,
                 todo, fetched, history>>

\* GitLab uploadLabels: the UpdateMergeRequest call that sets the labels of
\* the request to labelNames, skipped when labelNames is empty; then the
\* function returns and Upload appends what it returned.
GitlabUpdateLabels ==
  /\ pc = "labels_update"
  /\ IF GitlabCallsUpdate(labelNames)
     THEN \E ok \in Outcomes :
            /\ calls' = Append(calls, Call("UpdateMergeRequest", 0, "",
                                           Range(labelNames), "", ok))
            /\ nfail' = Failed(ok)
            /\ rLabels' = IF ok THEN Range(labelNames) ELSE rLabels
            /\ uerr' = IF ok THEN uerr
                       ELSE MultiAppend(uerr, <<Err("UpdateMergeRequest", 0, "")>>)
     ELSE UNCHANGED <<calls, nfail, rLabels, uerr>>
  /\ current' = {}
  /\ labelNames' = <<>>
  /\ pc' = NextPhase("labels")
  /\ UNCHANGED <<otherVars, inputVars, rStatuses, rComments, nextID, idx, cerr, merr,
                 create, todo, fetched, history>>

\* ----------------------------------------------------------------- comments
\* The remote comments as a list call returns them.  A GitLab discussion is
\* a list of notes; the nested loops of the handler visit the notes one by
\* one, as the single loop of the GitHub handler visits the comments.
ListOf(comments) ==
  LET ids == Ascending(DOMAIN comments)
  IN [n \in 1..Len(ids) |-> [ID |-> ids[n], Body |-> comments[ids[n]]]]

\* uploadComments up to the list call of updateExistingComments: a failed
\* list returns its error, which uploadComments appends.
ListComments ==
  /\ pc = "comments"
  /\ \E ok \in Outcomes :
       /\ calls' = Append(calls, Call("ListComments", 0, "", {}, "", ok))
       /\ nfail' = Failed(ok)
       /\ IF ok
          THEN /\ fetched' = ListOf(rComments)
               /\ pc' = "comments_update"
               /\ UNCHANGED cerr
               /\ idx' = 1
          ELSE /\ cerr' = UploadCommentsErr(cerr, <<Err("ListComments", 0, "")>>)
               /\ pc' = "comments_create"
               /\ idx' = FirstNewComment(<<Err("ListComments", 0, "")>>,
                                         NewComments(pr.Comments))
               /\ UNCHANGED fetched
  /\ UNCHANGED <<otherVars, inputVars, remoteVars, uerr, merr, labelLocals, history>>

\* updateExistingComments, one turn of the loop over the fetched comments.
ExistingComment ==
  /\ pc = "comments_update"
  /\ idx <= Len(fetched)
  /\ LET ec == fetched[idx]
         comments == ExistingComments(pr.Comments)
         act == CommentAction(host, ec, comments, manifests.comments)
     IN CASE act = "delete" ->
               \E ok \in Outcomes :
                 /\ calls' = Append(calls, Call("DeleteComment", ec.ID, "", {}, "", ok))
                 /\ nfail' = Failed(ok)
                 /\ rComments' =
                      IF ok THEN [id \in DOMAIN rComments \ {ec.ID} |-> rComments[id]]
                      ELSE rComments
                 /\ merr' = IF ok THEN merr
                            ELSE MultiAppend(merr, <<Err("DeleteComment", ec.ID, "")>>)
                 /\ idx' = LoopNext(ok, idx, Len(fetched))
          [] act = "update" ->
               \E ok \in Outcomes :
                 LET text == comments[ec.ID].Text
                 IN /\ calls' = Append(calls, Call("EditComment", ec.ID, text, {}, "", ok))
                    /\ nfail' = Failed(ok)
                    /\ rComments' =
                         IF ok /\ ec.ID \in DOMAIN rComments
                         THEN [rComments EXCEPT ![ec.ID] = text]
                         ELSE rComments
                    /\ merr' = IF ok THEN merr
                               ELSE MultiAppend(merr, <<Err("EditComment", ec.ID, text)>>)
                    /\ idx' = LoopNext(ok, idx, Len(fetched))
          [] OTHER ->
               /\ idx' = idx + 1
               /\ UNCHANGED <<calls, nfail, rComments, merr>>
  /\ UNCHANGED <<otherVars, inputVars, rStatuses, rLabels, nextID, pc, uerr, cerr,
                 labelLocals, fetched, history>>

\* updateExistingComments returns merr and uploadComments appends it.
ExistingCommentsReturn ==
  /\ pc = "comments_update"
  /\ idx > Len(fetched)
  /\ cerr' = UploadCommentsErr(cerr, merr)
  /\ merr' = <<>>
  /\ fetched' = <<>>
  /\ idx' = FirstNewComment(merr, NewComments(pr.Comments))
  /\ pc' = "comments_create"
  /\ UNCHANGED <<otherVars, inputVars, remoteVars, uerr, labelLocals, calls, nfail,
                 history>>

\* createNewComments, one turn of the loop over the new comments.
CreateComment ==
  /\ pc = "comments_create"
  /\ idx <= Len(NewComments(pr.Comments))
  /\ LET dc == NewComments(pr.Comments)[idx]
     IN \E ok \in Outcomes :
          /\ calls' = Append(calls, Call("CreateComment", 0, dc.Text, {}, "", ok))
          /\ nfail' = Failed(ok)
          /\ rComments' =
               IF ok
               THEN [id \in DOMAIN rComments \cup {nextID} |->
                       IF id = nextID THEN dc.Text ELSE rComments[id]]
               ELSE rComments
          /\ nextID' = IF ok THEN nextID + 1 ELSE nextID
          /\ merr' = IF ok THEN merr
                     ELSE MultiAppend(merr, <<Err("CreateComment", 0, dc.Text)>>)
          /\ idx' = LoopNext(ok, idx, Len(NewComments(pr.Comments)))
  /\ UNCHANGED <<otherVars, inputVars, rStatuses, rLabels, pc, uerr, cerr, labelLocals,
                 fetched, history>>

\* createNewComments returns merr, uploadComments appends it and returns
\* its own merr, Upload appends that and returns: uerr is Upload's result.
UploadReturn ==
  /\ pc = "comments_create"
  /\ idx > Len(NewComments(pr.Comments))
  /\ uerr' = MultiAppend(uerr, MultiAppend(cerr, merr))
  /\ cerr' = <<>>
  /\ merr' = <<>>
  /\ idx' = 1
  /\ pc' = NextPhase("comments")
  /\ UNCHANGED <<otherVars, inputVars, remoteVars, labelLocals, fetched, calls, nfail,
                 history>>

\* After a pass whose remote calls all succeeded the caller calls Upload
\* once more with the same PullRequest and the same manifests, against the
\* remote as that pass left it.
UploadAgain ==
  /\ pc = "done"
  /\ pass < MaxPasses
  /\ \A n \in 1..Len(calls) : calls[n].ok
  /\ pass' = pass + 1
  /\ start' = Remote
  /\ prev' = start
  /\ calls' = <<>>
  /\ uerr' = <<>>
  /\ pc' = "statuses"
  /\ UNCHANGED <<otherVars, inputVars, remoteVars, idx, cerr, merr, labelLocals,
                 fetched, nfail>>

Next ==
  \/ UploadStatus
  \/ StatusesReturn
  \/ GitHubListLabels
  \/ GitHubAddLabels
  \/ GitHubRemoveLabel
  \/ GitHubLabelsReturn
  \/ GitlabGetMergeRequest
  \/ GitlabUpdateLabels
  \/ ListComments
  \/ ExistingComment
  \/ ExistingCommentsReturn
  \/ CreateComment
  \/ UploadReturn
  \/ UploadAgain

\* ----------------------------------------------------------------- Download
\* Download with the model under construction returned beside the error.
DownloadResultPartial(p, err) == [pr |-> p, err |-> err]

\* What Download returns: nil and the error at a failure, whatever p has
\* been given so far; p and nil at the end.
DownloadResult(p, err) ==
  IF err # <<>> THEN [pr |-> <<>>, err |-> err] ELSE [pr |-> p, err |-> <<>>]

\* The statuses of the head commit as the host lists them.
StatusList(statuses) ==
  LET cs == SeqOf(DOMAIN statuses)
  IN [n \in 1..Len(cs) |-> [Context |-> cs[n], State |-> statuses[cs[n]]]]

\* GetStatusesResult when a state the table lacks is passed over.
RECURSIVE GetStatusesResultSkipUnknown(_, _)
GetStatusesResultSkipUnknown(table, resp) ==
  IF resp = <<>> THEN [statuses |-> <<>>, err |-> <<>>]
  ELSE LET rest == GetStatusesResultSkipUnknown(table, Tail(resp))
       IN IF Head(resp).State \notin DOMAIN table THEN rest
          ELSE [statuses |-> <<[ID |-> Head(resp).Context,
                                Code |-> table[Head(resp).State]]>>
                               \o rest.statuses,
                err |-> <<>>]

\* getStatuses, the loop over the statuses listed: a state that the inbound
\* table lacks ends the loop and the function returns nil and an error;
\* otherwise each status is converted, in order.
RECURSIVE GetStatusesResult(_, _)
GetStatusesResult(table, resp) ==
  IF resp = <<>> THEN [statuses |-> <<>>, err |-> <<>>]
  ELSE IF Head(resp).State \notin DOMAIN table
       THEN [statuses |-> <<>>,
             err |-> <<Err("UnknownStatusState", 0, Head(resp).State)>>]
       ELSE LET rest == GetStatusesResult(table, Tail(resp))
            IN IF rest.err # <<>> THEN rest
               ELSE [statuses |-> <<[ID |-> Head(resp).Context,
                                     Code |-> table[Head(resp).State]]>>
                                    \o rest.statuses,
                     err |-> <<>>]

\* ToComments with the ID of the remote comment left out.
ToCommentsNoID(ic) == [n \in 1..Len(ic) |-> [ID |-> 0, Text |-> ic[n].Body]]

\* downloadComments: the comments (GitLab: the notes of the discussions)
\* converted, in order.
ToComments(ic) == [n \in 1..Len(ic) |-> [ID |-> ic[n].ID, Text |-> ic[n].Body]]

\* githubLabels, gitlabLabels: the labels of the request converted.
ToLabels(labels) == SeqOf(labels)

\* The operations ops tried in order up to the one that fails, f (0: none
\* fails), as logged.
Attempt(ops, f) ==
  [n \in 1..(IF f = 0 THEN Len(ops) ELSE f) |-> Call(ops[n], 0, "", {}, "", n # f)]

\* Which of the operations ops may fail.
FailAt(ops) == IF nfail < MaxFailures THEN 0..Len(ops) ELSE {0}

\* Download returns nil and the error of the operation f of ops.
DownloadFails(ops, f) ==
  /\ ret' = DownloadResult(dpr, <<Err(ops[f], 0, "")>>)
  /\ pc' = "dl_done"
  /\ nfail' = nfail + 1

\* Download, its first lines: the directory of the raw files is made.
DownloadMkdir ==
  /\ pc = "dl_mkdir"
  /\ LET ops == <<"MkdirAll">>
     IN \E f \in FailAt(ops) :
          /\ calls' = calls \o Attempt(ops, f)
          /\ IF f # 0 THEN DownloadFails(ops, f)
             ELSE /\ pc' = "dl_request"
                  /\ UNCHANGED <<ret, nfail>>
  /\ UNCHANGED <<inputVars, remoteVars, idx, uerr, cerr, merr, labelLocals,
                 fetched, history, dpr, added, outputVars, urlVars>>

\* Download: the request is fetched.  The GitHub handler makes its pr from
\* it at once, labels included; the GitLab handler goes on to fetch the two
\* projects and keeps the merge request, whose labels current stands for.
DownloadRequest ==
  /\ pc = "dl_request"
  /\ LET ops == <<"GetRequest">>
     IN \E f \in FailAt(ops) :
          /\ calls' = calls \o Attempt(ops, f)
          /\ IF f # 0
             THEN /\ DownloadFails(ops, f)
                  /\ UNCHANGED <<dpr, current>>
             ELSE /\ IF host = GitHub
                     THEN /\ dpr' = <<[Statuses |-> <<>>,
                                       Labels |-> ToLabels(rLabels),
                                       Comments |-> <<>>]>>
                          /\ pc' = "dl_statuses"
                          /\ UNCHANGED current
                     ELSE /\ current' = rLabels
                          /\ pc' = "dl_projects"
                          /\ UNCHANGED dpr
                  /\ UNCHANGED <<ret, nfail>>
  /\ UNCHANGED <<inputVars, remoteVars, idx, uerr, cerr, merr, create,
                 labelNames, todo, fetched, history, added, outputVars, urlVars>>

\* GitLab baseGitlabPullRequest: the target project and the source project
\* are fetched, then the pr is made, labels included.
GitlabGetProjects ==
  /\ pc = "dl_projects"
  /\ LET ops == <<"GetProject", "GetProject">>
     IN \E f \in FailAt(ops) :
          /\ calls' = calls \o Attempt(ops, f)
          /\ IF f # 0
             THEN /\ DownloadFails(ops, f)
                  /\ UNCHANGED dpr
             ELSE /\ dpr' = <<[Statuses |-> <<>>,
                               Labels |-> ToLabels(current),
                               Comments |-> <<>>]>>
                  /\ pc' = "dl_comments"
                  /\ UNCHANGED <<ret, nfail>>
  /\ current' = {}
  /\ UNCHANGED <<inputVars, remoteVars, idx, uerr, cerr, merr, create,
                 labelNames, todo, fetched, history, added, outputVars, urlVars>>

\* Download of a model that is complete: it is returned with a nil error.
DownloadReturns(p) ==
  /\ ret' = DownloadResult(p, <<>>)
  /\ pc' = "dl_done"

\* getStatuses and the lines of Download around it.  The statuses are
\* fetched (the GitHub handler writes them to a file) and converted; the
\* GitHub handler goes on to write the request, the GitLab handler returns.
DownloadStatuses ==
  /\ pc = "dl_statuses"
  /\ LET ops == IF host = GitHub THEN <<"GetStatuses", "WriteJSON">>
                ELSE <<"GetStatuses">>
         res == GetStatusesResult(Inbound(host), StatusList(rStatuses))
         p == <<[dpr[1] EXCEPT !.Statuses = res.statuses]>>
     IN \E f \in FailAt(ops) :
          /\ calls' = calls \o Attempt(ops, f)
          /\ IF f # 0
             THEN /\ DownloadFails(ops, f)
                  /\ UNCHANGED dpr
             ELSE IF res.err # <<>>
             THEN /\ ret' = DownloadResult(dpr, res.err)
                  /\ pc' = "dl_done"
                  /\ UNCHANGED <<dpr, nfail>>
             ELSE /\ dpr' = p
                  /\ IF host = GitHub
                     THEN pc' = "dl_write" /\ UNCHANGED ret
                     ELSE DownloadReturns(p)
                  /\ UNCHANGED nfail
  /\ UNCHANGED <<inputVars, remoteVars, idx, uerr, cerr, merr, labelLocals,
                 fetched, history, added, outputVars, urlVars>>

\* GitHub Download: the request is written to its file.
GitHubWriteRequest ==
  /\ pc = "dl_write"
  /\ LET ops == <<"WriteJSON">>
     IN \E f \in FailAt(ops) :
          /\ calls' = calls \o Attempt(ops, f)
          /\ IF f # 0 THEN DownloadFails(ops, f)
             ELSE /\ pc' = "dl_comments"
                  /\ UNCHANGED <<ret, nfail>>
  /\ UNCHANGED <<inputVars, remoteVars, idx, uerr, cerr, merr, labelLocals,
                 fetched, history, dpr, added, outputVars, urlVars>>

\* downloadComments and the lines of Download around it.  The GitHub
\* handler makes a directory, lists the comments and writes each to a file,
\* then returns; the GitLab handler lists the discussions and goes on to the
\* statuses.
DownloadComments ==
  /\ pc = "dl_comments"
  /\ LET ic == ListOf(rComments)
         ops == IF host = GitHub
                THEN <<"MkdirAll", "ListComments">>
                       \o [n \in 1..Len(ic) |-> "WriteJSON"]
                ELSE <<"ListComments">>
         p == <<[dpr[1] EXCEPT !.Comments = ToComments(ic)]>>
     IN \E f \in FailAt(ops) :
          /\ calls' = calls \o Attempt(ops, f)
          /\ IF f # 0
             THEN /\ DownloadFails(ops, f)
                  /\ UNCHANGED dpr
             ELSE /\ dpr' = p
                  /\ IF host = GitHub
                     THEN DownloadReturns(p)
                     ELSE pc' = "dl_statuses" /\ UNCHANGED ret
                  /\ UNCHANGED nfail
  /\ UNCHANGED <<inputVars, remoteVars, idx, uerr, cerr, merr, labelLocals,
                 fetched, history, added, outputVars, urlVars>>

\* The manifests of a model as downloaded: its label texts and, as decimal
\* strings, the IDs of its comments.
ManifestsOf(p) ==
  [labels |-> Range(p.Labels),
   comments |-> {FormatInt(p.Comments[n].ID) : n \in 1..Len(p.Comments)}]

\* The caller, after a Download that returned a model: it calls Upload with
\* the model as it is and the manifests of the model.
CallUpload ==
  /\ pc = "dl_done"
  /\ ret.err = <<>>
  /\ pr' = ret.pr[1]
  /\ manifests' = ManifestsOf(ret.pr[1])
  /\ calls' = <<>>
  /\ pc' = "statuses"
  /\ start' = Remote
  /\ prev' = Remote
  /\ UNCHANGED <<host, remoteVars, idx, uerr, cerr, merr, labelLocals,
                 fetched, nfail, pass, otherVars>>

NextDownload ==
  \/ Next
  \/ DownloadMkdir
  \/ DownloadRequest
  \/ GitlabGetProjects
  \/ DownloadStatuses
  \/ GitHubWriteRequest
  \/ DownloadComments
  \/ CallUpload

\* The caller, after an Upload that returned: it calls Download on the same
\* request, against the remote state as the Upload left it.
CallDownload ==
  /\ pc = "done"
  /\ pc' = "dl_mkdir"
  /\ calls' = <<>>
  /\ dpr' = <<>>
  /\ ret' = [pr |-> <<>>, err |-> <<>>]
  /\ UNCHANGED <<inputVars, remoteVars, idx, uerr, cerr, merr, labelLocals,
                 fetched, nfail, history, added, outputVars, urlVars>>

NextUploadDownload ==
  \/ Next
  \/ CallDownload
  \/ DownloadMkdir
  \/ DownloadRequest
  \/ GitlabGetProjects
  \/ DownloadStatuses
  \/ GitHubWriteRequest
  \/ DownloadComments

\* ----------------------------------------------------------- another actor
\* Another client of the host adds a label to the request while the label
\* pass stands between its fetch of the labels and a label call still to
\* make: before the batched add or a removal of the GitHub handler, before
\* the update of the GitLab handler.  The label is one the manifest lacks.
ActorAddsLabel ==
  /\ \/ pc = "labels_add"
     \/ pc = "labels_remove" /\ todo # {}
     \/ pc = "labels_update"
  /\ \E l \in LabelTexts \ (rLabels \cup manifests.labels) :
       /\ rLabels' = rLabels \cup {l}
       /\ added' = added \cup {l}
  /\ UNCHANGED <<inputVars, rStatuses, rComments, nextID, pc, idx, uerr, cerr,
                 merr, labelLocals, fetched, calls, nfail, history,
                 downloadVars, outputVars, urlVars>>

NextActor == Next \/ ActorAddsLabel

\* ------------------------------------------------------- AddOutputResources
uploadStepName == "build-pipeline.knative.dev/uploader"
uploadStepImage == "gcr.io/something/else"

\* A corev1.Container as far as the function sets it.
Container(name, image, args) == [Name |-> name, Image |-> image, Args |-> args]

\* fmt.Sprintf("--result=%s,%s,%s", output.Name, output.Format, output.Path)
ResultFlag(output) ==
  "--result=" \o output.Name \o "," \o output.Format \o "," \o output.Path

\* fmt.Sprintf("--resource=%s,%s", output.Name, output.Type)
ResourceFlag(output) == "--resource=" \o output.Name \o "," \o output.Type

\* OutputFlags with the resource flags before the result flags.
OutputFlagsResourcesFirst(outputs) ==
  [n \in 1..Len(outputs.Resources) |-> ResourceFlag(outputs.Resources[n])]
    \o [n \in 1..Len(outputs.Results) |-> ResultFlag(outputs.Results[n])]

\* The flags the two loops build: one per result, then one per resource.
OutputFlags(outputs) ==
  [n \in 1..Len(outputs.Results) |-> ResultFlag(outputs.Results[n])]
    \o [n \in 1..Len(outputs.Resources) |-> ResourceFlag(outputs.Resources[n])]

\* AppendStep that leaves out an upload step the steps already hold.
AppendStepOnce(steps, upload) ==
  IF upload \in Range(steps) THEN steps ELSE Append(steps, upload)

\* build.Spec.Steps = append(build.Spec.Steps, upload)
AppendStep(steps, upload) == Append(steps, upload)

\* AddOutputResources(build, task, taskRun, logger), called on the build
\* and the task for the first time or once more after it returned.
\* task.Spec.Outputs is a pointer that the first loop dereferences: with a
\* nil pointer the call panics before anything is appended.  Otherwise the
\* upload step is appended to the steps of the build the argument points to
\* and the same pointer is returned.
AddOutputResources ==
  /\ pc \in {"outputs", "outputs_returned"}
  /\ ncalls < MaxCalls
  /\ ncalls' = ncalls + 1
  /\ IF task.Outputs = <<>>
     THEN /\ pc' = "outputs_panic"
          /\ UNCHANGED <<build, got>>
     ELSE LET upload == Container(uploadStepName, uploadStepImage,
                                  OutputFlags(task.Outputs[1]))
          IN /\ build' = [build EXCEPT !.Steps = AppendStep(build.Steps, upload)]
             /\ got' = <<build'>>
             /\ pc' = "outputs_returned"
  /\ UNCHANGED <<inputVars, remoteVars, idx, uerr, cerr, merr, labelLocals,
                 fetched, calls, nfail, history, downloadVars, added, task,
                 build0, urlVars>>

NextOutputs == AddOutputResources

\* ----------------------------------------------------------- parseGitlabURL
\* A URL path is a sequence of pieces: the separator "/" or a run of
\* characters without it, taken whole.
Slash == "/"
MergeRequests == "merge_requests"
Pieces == {Slash, MergeRequests, "foo", "1"}

\* strings.Split(p.Path, "/"): the segments between the separators, each a
\* sequence of pieces; a path without separator is one segment.
RECURSIVE Split(_)
Split(path) ==
  IF path = <<>> THEN <<<<>>>>
  ELSE LET rest == Split(Tail(path))
       IN IF Head(path) = Slash THEN <<<<>>>> \o rest
          ELSE <<<<Head(path)>> \o rest[1]>> \o Tail(rest)

\* strings.Join(segments, "/")
RECURSIVE Join(_)
Join(segments) ==
  IF segments = <<>> THEN <<>>
  ELSE IF Len(segments) = 1 THEN segments[1]
  ELSE segments[1] \o <<Slash>> \o Join(Tail(segments))

\* The value of a decimal digit.
DigitValue(d) == (CHOOSE n \in 1..10 : Digit[n] = d) - 1

RECURSIVE DecimalValue(_)
DecimalValue(ds) ==
  IF ds = <<>> THEN 0
  ELSE 10 * DecimalValue(SubSeq(ds, 1, Len(ds) - 1)) + DigitValue(ds[Len(ds)])

\* strconv.Atoi on a segment: an error for the empty segment and for a
\* segment with a piece that is no digit, otherwise the number (the pieces
\* hold no sign, and no segment is long enough to overflow an int).
Atoi(segment) ==
  IF segment # <<>> /\ \A n \in 1..Len(segment) : segment[n] \in Range(Digit)
  THEN [n |-> DecimalValue(segment), err |-> <<>>]
  ELSE [n |-> 0, err |-> <<Err("Atoi", 0, "")>>]

\* What parseGitlabURL does with the raw URL r: it returns a project and a
\* number, returns an error, or panics at an index out of range.  In Go
\* split[last] is element last + 1 of the sequence.
ParseOutcome(outcome, project, n, err) ==
  [outcome |-> outcome, project |-> project, n |-> n, err |-> err]

parseGitlabURL(r) ==
  IF ~r.Valid
  THEN ParseOutcome("returned", <<>>, 0, <<Err("url.Parse", 0, "")>>)
  ELSE LET split == Split(r.Path)
           last == Len(split) - 1
           prInt == Atoi(split[last + 1])
       IN IF prInt.err # <<>>
          THEN ParseOutcome("returned", <<>>, 0, <<Err("ParsePR", 0, "")>>)
          ELSE IF last - 1 < 0
          THEN ParseOutcome("panicked", <<>>, 0, <<>>)
          ELSE IF split[last] # <<MergeRequests>>
          THEN ParseOutcome("returned", <<>>, 0, <<Err("InvalidURL", 0, "")>>)
          ELSE IF last - 1 < 1
          THEN ParseOutcome("panicked", <<>>, 0, <<>>)
          ELSE ParseOutcome("returned", Join(SubSeq(split, 2, last - 1)),
                            prInt.n, <<>>)

\* GitLab NewHandler up to its use of the URL: parseGitlabURL is called on
\* the raw URL, and its error, if any, is returned.
NewHandler ==
  /\ pc = "parse"
  /\ parsed' = <<parseGitlabURL(raw)>>
  /\ pc' = IF parsed'[1].outcome = "panicked" THEN "parse_panic"
           ELSE "parse_done"
  /\ UNCHANGED <<inputVars, remoteVars, idx, uerr, cerr, merr, labelLocals,
                 fetched, calls, nfail, history, downloadVars, added,
                 outputVars, raw>>

NextParse == NewHandler

\* ----------------------------------------------------------- specifications
LabelSeqs == SeqsUpTo(LabelTexts, MaxLabels)
LabelSets == SUBSET LabelTexts

\* One status that uploads.
FixedStatuses == {<<[ID |-> "ci", Code |-> "Success"]>>}

\* Labels: one to add and one, known to the manifest, to remove.
FixedLabelSeqs == {<<"bug">>}
FixedLabelSets == {{"wip"}}

\* Comments: one to create and one to update in the desired sequence, and a
\* remote that also holds one to delete.
FixedCommentSeqs ==
  {<<[ID |-> 0, Text |-> "a"], [ID |-> 1, Text |-> "b"]>>}
FixedRemoteComments == {(1 :> "a") @@ (2 :> "a")}
FixedCommentKeys == {{"1", "2"}}

\* One pass input with every kind of item, on both hosts.
InitFixed ==
  InitFrom(Hosts, FixedStatuses,
           FixedLabelSeqs, FixedLabelSets, FixedLabelSets,
           FixedCommentSeqs, FixedRemoteComments, FixedCommentKeys)

\* Both hosts, every desired status sequence over a code that uploads and
\* one that does not, labels and comments that are absent or as fixed above.
Init ==
  InitFrom(Hosts,
           SeqsUpTo([ID : StatusIDs, Code : {"Success", BogusCode}], MaxStatuses),
           {<<>>} \cup FixedLabelSeqs, {{}} \cup FixedLabelSets, FixedLabelSets,
           {<<>>} \cup FixedCommentSeqs, {EmptyMap} \cup FixedRemoteComments,
           FixedCommentKeys)

Spec == Init /\ [][Next]_vars

\* Both hosts and every combination of desired comments, remote comments and
\* comment manifest, with no status and no label; and the fixed input.
InitComments ==
  \/ InitFixed
  \/ InitFrom(Hosts, {<<>>}, {<<>>}, {{}}, {{}},
              SeqsUpTo(CommentValues, MaxComments),
              RemoteCommentStates, SUBSET CommentKeys)

SpecComments == InitComments /\ [][Next]_vars

\* Both hosts and every combination of desired labels, remote labels and
\* label manifest, with no status and no comment; and the fixed input.
InitLabels ==
  \/ InitFixed
  \/ InitFrom(Hosts, {<<>>}, LabelSeqs, LabelSets, LabelSets,
              {<<>>}, {EmptyMap}, {{}})

SpecLabels == InitLabels /\ [][Next]_vars

\* Both hosts, no label and no comment, and the desired statuses: every
\* sequence over two contexts, two codes that upload to different values
\* and a code that does not upload, and every single status of any code.
StatusSeqs ==
  SeqsUpTo([ID : Contexts, Code : {"Success", "Failure", BogusCode}],
           MaxStatuses)
    \cup {<<s>> : s \in [ID : Contexts, Code : CanonicalCodes \cup {BogusCode}]}

InitStatuses ==
  \/ InitFixed
  \/ InitFrom(Hosts, StatusSeqs, {<<>>}, {{}}, {{}}, {<<>>}, {EmptyMap}, {{}})

SpecStatuses == InitStatuses /\ [][Next]_vars

\* The values a remote status may have: those of either inbound table and
\* one of neither.
RemoteValues ==
  DOMAIN GitHubToTekton \cup DOMAIN GitlabToTekton \cup {BogusValue}

\* The remote status stores: any subset of the contexts, any values.
RemoteStatusStates == UNION {[cs -> RemoteValues] : cs \in SUBSET Contexts}

\* The state before Download is called, the remote drawn from the sets
\* given: the status stores, the label sets and the comment stores.
InitDownloadFrom(rss, rls, rcs) ==
  /\ InitPass(Hosts, {<<>>}, {<<>>}, rls, {{}}, {<<>>}, rcs, {{}}, rss,
              "dl_mkdir")
  /\ NoDownload
  /\ NoOutputs
  /\ NoParse

\* Download and then Upload of what it returned, on both hosts: against
\* every remote status store with the labels and the comments fixed, and
\* against every remote label set and comment store with no status; and
\* the fixed input of the Upload pass.
InitDownload ==
  \/ InitFixed
  \/ InitDownloadFrom(RemoteStatusStates, FixedLabelSets, FixedRemoteComments)
  \/ InitDownloadFrom({EmptyMap}, LabelSets,
                      RemoteCommentStates \cup FixedRemoteComments)

SpecDownload == InitDownload /\ [][NextDownload]_vars

\* The label passes of SpecLabels with the other actor beside them.
SpecActor == InitLabels /\ [][NextActor]_vars

\* The steps, results and resources of the package's tests.
StepValues ==
  {Container("myname", "myimage", <<>>),
   Container(uploadStepName, uploadStepImage, <<>>)}
TestResults ==
  {[Name |-> "unit", Format |-> "junitxml", Path |-> "/workspace/foo.xml"],
   [Name |-> "otherunit", Format |-> "plaintext", Path |-> "/workspace/foo.txt"]}
TaskResources ==
  {[Name |-> "myresource", Type |-> "git"],
   [Name |-> "myotherresource", Type |-> "image"]}

\* The values of task.Spec.Outputs: nil, or a pointer to the results and
\* the resources.
OutputValues ==
  {<<>>} \cup {<<o>> : o \in [Results : SeqsUpTo(TestResults, MaxOutputs),
                              Resources : SeqsUpTo(TaskResources, MaxOutputs)]}

\* Before AddOutputResources is called on a build and a task.
InitOutputs ==
  /\ InitPass({GitHub}, {<<>>}, {<<>>}, {{}}, {{}}, {<<>>}, {EmptyMap}, {{}},
              {EmptyMap}, "outputs")
  /\ NoDownload
  /\ build \in [Steps : SeqsUpTo(StepValues, MaxSteps)]
  /\ task \in [Outputs : OutputValues]
  /\ got = <<>>
  /\ ncalls = 0
  /\ build0 = build
  /\ NoParse

SpecOutputs == InitOutputs /\ [][NextOutputs]_vars

\* Upload passes of every desired status sequence onto a request that has no
\* status yet, and a Download after them.
SpecUploadDownload == InitStatuses /\ [][NextUploadDownload]_vars

\* Before NewHandler is called on a raw URL: every path of at most MaxPath
\* pieces, in a URL that url.Parse accepts or in one that it rejects.
InitParse ==
  /\ InitPass({Gitlab}, {<<>>}, {<<>>}, {{}}, {{}}, {<<>>}, {EmptyMap}, {{}},
              {EmptyMap}, "parse")
  /\ NoDownload
  /\ NoOutputs
  /\ raw \in [Path : SeqsUpTo(Pieces, MaxPath), Valid : BOOLEAN]
  /\ parsed = <<>>

SpecParse == InitParse /\ [][NextParse]_vars

\* =================================================================== claims
Done == pc = "done"

\* How many calls of this pass have the operation op and the comment ID id.
NumCalls(op, id) ==
  Cardinality({n \in 1..Len(calls) : calls[n].op = op /\ calls[n].id = id})

\* The calls of this pass with the operation op, in order.
CallsOf(op) == SelectSeq(calls, LAMBDA c : c.op = op)

\* The list call of the comment pass was made and succeeded.
CommentsFetched ==
  \E n \in 1..Len(calls) : calls[n].op = "ListComments" /\ calls[n].ok

\* The nonzero IDs of the desired comments.
DesiredIDs == {pr.Comments[n].ID : n \in 1..Len(pr.Comments)} \ {0}

\* The text the desired sequence gives the ID id: that of the last desired
\* comment with this ID.
DesiredText(id) ==
  LET ns == {n \in 1..Len(pr.Comments) : pr.Comments[n].ID = id}
      last == CHOOSE n \in ns : \A m \in ns : m <= n
  IN pr.Comments[last].Text

\* The remote comments of the start of the pass whose ID, as a decimal
\* string, is in the comment manifest.
Tracked == {id \in DOMAIN start.comments : FormatInt(id) \in manifests.comments}
Untracked == DOMAIN start.comments \ Tracked

\* C1: a remote comment whose ID is absent from the comment manifest gets
\* neither an update nor a delete call in a pass, whatever the desired
\* comments hold for that ID.
C1_UntrackedCommentUntouched ==
  \A id \in Untracked :
    NumCalls("EditComment", id) = 0 /\ NumCalls("DeleteComment", id) = 0

NewTexts ==
  LET new == SelectSeq(pr.Comments, LAMBDA c : c.ID = 0)
  IN [n \in 1..Len(new) |-> new[n].Text]

\* The texts the create calls of this pass carried, in order.
CreatedTexts ==
  LET cs == CallsOf("CreateComment")
  IN [n \in 1..Len(cs) |-> cs[n].text]

\* C5: at the end of a pass the create calls are, in order, one per desired
\* comment with ID 0, each with that comment's text, whatever the remote
\* holds and whether or not the fetch or an update or delete failed.
C5_OneCreatePerNewComment == Done => CreatedTexts = NewTexts

\* Two new comments with the text a remote comment already has, in a pass
\* whose fetch of the remote comments failed.
C5_Witness ==
  /\ Done
  /\ ~CommentsFetched
  /\ pr.Comments = <<[ID |-> 0, Text |-> "a"], [ID |-> 0, Text |-> "a"]>>
  /\ \E id \in DOMAIN start.comments : start.comments[id] = "a"
  /\ Len(CallsOf("CreateComment")) = 2

\* What C6 says of the remote comment id, tracked and desired.
UpdatedOrLeft(id) ==
  LET edits == SelectSeq(calls, LAMBDA c : c.op = "EditComment" /\ c.id = id)
  IN /\ NumCalls("DeleteComment", id) = 0
     /\ IF DesiredText(id) # start.comments[id]
        THEN /\ Len(edits) = 1
             /\ edits[1].text = DesiredText(id)
             /\ edits[1].ok => rComments[id] = DesiredText(id)
        ELSE Len(edits) = 0

DesiredLabels == {pr.Labels[n] : n \in 1..Len(pr.Labels)}

\* Every remote call of this pass so far succeeded.
AllOk == \A n \in 1..Len(calls) : calls[n].ok

\* The fetch of the remote labels was made and succeeded.
LabelsFetched ==
  \E n \in 1..Len(calls) :
    calls[n].op \in {"ListLabels", "GetMergeRequest"} /\ calls[n].ok

\* The add-set and the remove-set of the label reconciler, from the remote
\* labels of the start of the pass.
AddSet == DesiredLabels \ start.labels
RemoveSet == (start.labels \ DesiredLabels) \cap manifests.labels

\* C2: after a pass whose remote calls all succeeded the remote labels are
\* the labels of the start with the add-set added and the remove-set
\* removed.
C2_LabelsReconciled ==
  (Done /\ AllOk) => rLabels = (start.labels \cup AddSet) \ RemoveSet

\* The same for a pass of the GitHub handler, the host on which it holds.
C2_GitHubLabelsReconciled ==
  (Done /\ AllOk /\ host = GitHub) =>
    rLabels = (start.labels \cup AddSet) \ RemoveSet

\* C7: a remote label that is absent from the label manifest is on the
\* remote throughout the pass and after it.
C7_UntrackedLabelStays ==
  \A l \in start.labels \ manifests.labels : l \in rLabels

\* A pass that removed a label the manifest knows and left on the remote a
\* label that is neither in the manifest nor desired.
C7_Witness ==
  /\ Done
  /\ \E l \in start.labels : l \notin manifests.labels /\ l \notin DesiredLabels
  /\ \E l \in start.labels : l \notin rLabels

\* C8: in a pass that follows a pass whose remote calls all succeeded (the
\* only pass that UploadAgain lets another pass follow), with the same
\* desired labels and manifest, the add-set and the remove-set are empty
\* and the remote labels stay as they were at the start of the pass.
C8_SecondPassDiffEmpty ==
  pass >= 2 => (AddSet = {} /\ RemoveSet = {} /\ rLabels = start.labels)

\* What does hold of such a pass on both hosts: it changes no label.  The
\* batched add of GitHub carries no label, no removal call is made, and the
\* update of GitLab, when made, sets the labels the remote already has.
SecondPassChangesNoLabel ==
  pass >= 2 =>
    /\ rLabels = start.labels
    /\ \A n \in 1..Len(calls) :
         /\ calls[n].op = "AddLabels" => calls[n].labels = {}
         /\ calls[n].op # "RemoveLabel"
         /\ calls[n].op = "UpdateMergeRequest" => calls[n].labels = start.labels

\* The label-add calls of this pass: the batched add of GitHub, the update
\* of GitLab.
AddCalls ==
  SelectSeq(calls, LAMBDA c : c.op \in {"AddLabels", "UpdateMergeRequest"})

\* C9: no label-add call is made when the add-set is empty, and a pass that
\* fetched the remote labels made exactly one when it is not.
C9_AddCallOnlyWhenNonEmpty ==
  /\ AddSet = {} => Len(AddCalls) = 0
  /\ (Done /\ LabelsFetched /\ AddSet # {}) => Len(AddCalls) = 1

\* ---------------------------------------------------------- error claims
\* The error Upload is to hold for the failed call c.
ErrorOf(c) == [op |-> c.op, id |-> c.id, text |-> c.text]

\* The operations that change the remote.
Mutations ==
  {"SetStatus", "AddLabels", "RemoveLabel", "UpdateMergeRequest",
   "CreateComment", "EditComment", "DeleteComment"}

\* Every status has a code of the outbound table and every remote call of
\* the pass succeeded.
EveryItemSucceeded ==
  /\ AllOk
  /\ \A n \in 1..Len(pr.Statuses) : pr.Statuses[n].Code \in CanonicalCodes

\* C3: Upload returns nil exactly when every item succeeded, and the error
\* it returns holds the failure of every remote mutation that failed.
C3_ErrorIffAnyFailure ==
  Done =>
    /\ uerr = <<>> <=> EveryItemSucceeded
    /\ \A n \in 1..Len(calls) :
         (calls[n].op \in Mutations /\ ~calls[n].ok) =>
           \E m \in 1..Len(uerr) : uerr[m] = ErrorOf(calls[n])

\* The contexts of the desired statuses whose code is canonical, in order.
UploadableContexts ==
  LET up == SelectSeq(pr.Statuses, LAMBDA st : st.Code \in CanonicalCodes)
  IN [n \in 1..Len(up) |-> up[n].ID]

\* The contexts the set-status calls of this pass carried, in order.
StatusContexts ==
  LET cs == CallsOf("SetStatus")
  IN [n \in 1..Len(cs) |-> cs[n].text]

\* The remote comment id is one the handler has a call to make for.
NeedsCall(id) ==
  IF host = GitHub
  THEN IF id \in DesiredIDs THEN DesiredText(id) # start.comments[id]
       ELSE id \in Tracked
  ELSE id \in Tracked /\ (id \notin DesiredIDs \/ DesiredText(id) # start.comments[id])

UnknownCodeErrors == SelectSeq(uerr, LAMBDA e : e.op = "UnknownStatusCode")

\* The set-status calls of this pass made for the context id.
SetCallsFor(id) ==
  SelectSeq(calls, LAMBDA c : c.op = "SetStatus" /\ c.text = id)

\* C13: each of the ten canonical codes has an entry in the outbound table
\* of either host, and at the end of a pass every desired status with one
\* of these codes got a set-status call for its context and Upload's error
\* holds no unknown-status-code error for it.
C13_CanonicalCodesUpload ==
  /\ \A c \in CanonicalCodes : c \in DOMAIN toGitHub /\ c \in DOMAIN toGitlab
  /\ Done =>
       \A n \in 1..Len(pr.Statuses) :
         pr.Statuses[n].Code \in CanonicalCodes =>
           /\ Len(SetCallsFor(pr.Statuses[n].ID)) >= 1
           /\ \A m \in 1..Len(uerr) :
                uerr[m] # Err("UnknownStatusCode", 0, pr.Statuses[n].Code)

\* A pass of the GitLab handler that uploaded one status of code Timeout.
C13_Witness ==
  /\ Done
  /\ host = Gitlab
  /\ pr.Statuses = <<[ID |-> "ci", Code |-> "Timeout"]>>
  /\ Len(CallsOf("SetStatus")) = 1
  /\ calls[1].ok
  /\ rStatuses = ("ci" :> "failure")

\* The desired statuses whose code has an entry in the outbound table of
\* the host, and those whose code has none.
Mapped == SelectSeq(pr.Statuses, LAMBDA st : st.Code \in DOMAIN Outbound(host))
Unmapped == SelectSeq(pr.Statuses, LAMBDA st : st.Code \notin DOMAIN Outbound(host))

\* C14: at the end of a pass the set-status calls are, in order, one per
\* desired status whose code has an outbound entry, whether it comes before
\* or after a status whose code has none; a status whose code has none got
\* no call and Upload's error holds one unknown-status-code error for it,
\* in order.
C14_UnmappedStatusSkipped ==
  Done =>
    /\ StatusContexts = [n \in 1..Len(Mapped) |-> Mapped[n].ID]
    /\ UnknownCodeErrors =
         [n \in 1..Len(Unmapped) |->
            Err("UnknownStatusCode", 0, Unmapped[n].Code)]

\* A status whose code has no entry between two statuses that were both
\* uploaded.
C14_Witness ==
  /\ Done
  /\ AllOk
  /\ pr.Statuses = <<[ID |-> "lint", Code |-> "Success"],
                     [ID |-> "ci", Code |-> BogusCode],
                     [ID |-> "ci", Code |-> "Failure"]>>
  /\ Len(CallsOf("SetStatus")) = 2
  /\ Len(UnknownCodeErrors) = 1
  /\ rStatuses = ("ci" :> "failure") @@ ("lint" :> "success")

\* The IDs of the desired statuses.
DesiredContexts == {pr.Statuses[n].ID : n \in 1..Len(pr.Statuses)}

\* C15: the remote overwrites by context.  After a pass whose calls all
\* succeeded the remote holds one entry per status ID uploaded, under that
\* ID, beside the entries it had; and a second pass with the same statuses
\* whose calls all succeeded leaves the remote statuses as the first left
\* them.
C15_StatusUploadIdempotent ==
  (Done /\ AllOk) =>
    /\ DOMAIN rStatuses =
         DOMAIN start.statuses \cup {Mapped[n].ID : n \in 1..Len(Mapped)}
    /\ pass >= 2 => rStatuses = start.statuses

\* The second of two passes that each uploaded two statuses of one ID with
\* different codes and a status of another ID.
C15_Witness ==
  /\ Done
  /\ AllOk
  /\ pass = 2
  /\ pr.Statuses = <<[ID |-> "ci", Code |-> "Success"],
                     [ID |-> "ci", Code |-> "Failure"],
                     [ID |-> "lint", Code |-> "Success"]>>
  /\ Len(CallsOf("SetStatus")) = 3
  /\ rStatuses = ("ci" :> "failure") @@ ("lint" :> "success")

\* C16: at the end of a pass every desired status of code Neutral got a
\* set-status call for its context that carried the value "success",
\* Upload's error holds no unknown-status-code error for Neutral, and when
\* the calls all succeeded and no later status has the same ID the remote
\* value of the context is "success".
C16_NeutralUploadsAsSuccess ==
  Done =>
    \A n \in 1..Len(pr.Statuses) :
      pr.Statuses[n].Code = "Neutral" =>
        /\ \E m \in 1..Len(calls) :
             /\ calls[m].op = "SetStatus"
             /\ calls[m].text = pr.Statuses[n].ID
             /\ calls[m].state = "success"
        /\ \A m \in 1..Len(uerr) :
             uerr[m] # Err("UnknownStatusCode", 0, "Neutral")
        /\ (AllOk /\ \A k \in (n + 1)..Len(pr.Statuses) :
                       pr.Statuses[k].ID # pr.Statuses[n].ID) =>
             /\ pr.Statuses[n].ID \in DOMAIN rStatuses
             /\ rStatuses[pr.Statuses[n].ID] = "success"

\* Scenario E on both hosts: one status of code Neutral, uploaded.
C16_Witness ==
  /\ Done
  /\ AllOk
  /\ host = GitHub
  /\ pr.Statuses = <<[ID |-> "lint", Code |-> "Neutral"]>>
  /\ rStatuses = ("lint" :> "success")
  /\ uerr = <<>>

\* ---------------------------------------------------- AddOutputResources
\* The args C17 gives the upload step of a task with the results rs and the
\* resources cs.
C17Args(rs, cs) ==
  [n \in 1..Len(rs) |->
     "--result=" \o rs[n].Name \o "," \o rs[n].Format \o "," \o rs[n].Path]
    \o [n \in 1..Len(cs) |->
          "--resource=" \o cs[n].Name \o "," \o cs[n].Type]

\* What C17 says of a call on the task outputs o (no results and no
\* resources when the task has no outputs): the call returns the build, and
\* the steps of the build are those it had followed by the upload step.
C17Returns(rs, cs) ==
  /\ pc' = "outputs_returned"
  /\ got' = <<build'>>
  /\ build'.Steps =
       build.Steps \o <<[Name |-> "build-pipeline.knative.dev/uploader",
                         Image |-> "gcr.io/something/else",
                         Args |-> C17Args(rs, cs)]>>

\* C17: every call of AddOutputResources returns the build with its steps
\* followed by one upload step whose args are the result flags and then the
\* resource flags of the task, none when the task has no outputs.
C17_UploadStepAppended ==
  [][pc = "outputs" =>
       IF task.Outputs = <<>> THEN C17Returns(<<>>, <<>>)
       ELSE C17Returns(task.Outputs[1].Results, task.Outputs[1].Resources)]_vars

\* The same for the calls on a task whose Outputs pointer is not nil, the
\* tasks on which it holds.
C17_UploadStepAppendedToOutputs ==
  [][(pc = "outputs" /\ task.Outputs # <<>>) =>
       C17Returns(task.Outputs[1].Results, task.Outputs[1].Resources)]_vars

\* The last case of the package's test, returned.
C17_TestCaseReturned ==
  /\ pc = "outputs_returned"
  /\ got = <<[Steps |->
               <<[Name |-> "myname", Image |-> "myimage", Args |-> <<>>],
                 [Name |-> "build-pipeline.knative.dev/uploader",
                  Image |-> "gcr.io/something/else",
                  Args |-> <<"--result=unit,junitxml,/workspace/foo.xml",
                             "--result=otherunit,plaintext,/workspace/foo.txt",
                             "--resource=myresource,git",
                             "--resource=myotherresource,image">>]>>]>>

\* ------------------------------------------------------------ other actor
\* C18: a label that another actor added between the fetch of the labels
\* and a label call of the pass, and that the manifest lacks, is on the
\* remote when the pass is over.
C18_ConcurrentLabelKept == Done => added \subseteq rLabels

\* The same for a pass of the GitHub handler, the host on which it holds:
\* its calls add and remove single labels and never set the whole list.
C18_GitHubConcurrentLabelKept ==
  (Done /\ host = GitHub) => added \subseteq rLabels

\* A pass of the GitHub handler that added a label and removed another
\* while the other actor added a third, still on the remote.
C18_GitHubWitness ==
  /\ Done
  /\ host = GitHub
  /\ added # {}
  /\ added \subseteq rLabels
  /\ Len(CallsOf("AddLabels")) = 1
  /\ calls[2].ok

\* ---------------------------------------------------------- Download claims
\* Download has returned and the caller has not gone on yet.
Downloaded == pc = "dl_done"

\* The statuses of the remote, each context with its value read through
\* the inbound table of the host; defined when every value is in the table.
RemoteStatusesInbound ==
  LET cs == SeqOf(DOMAIN rStatuses)
  IN [n \in 1..Len(cs) |-> [ID |-> cs[n], Code |-> Inbound(host)[rStatuses[cs[n]]]]]

\* The comments of the remote, by ascending ID.
RemoteCommentsListed ==
  LET ids == Ascending(DOMAIN rComments)
  IN [n \in 1..Len(ids) |-> [ID |-> ids[n], Text |-> rComments[ids[n]]]]

\* Some remote status has a value that the inbound table of the host lacks.
SomeStatusUnrecognized ==
  \E c \in DOMAIN rStatuses : rStatuses[c] \notin DOMAIN Inbound(host)

\* C11: when Download has returned, either its error is nil, no operation
\* failed and the model it returned holds all the statuses, all the labels
\* and all the comments of the remote, or its error is not nil and it
\* returned no model.
C11_DownloadAllOrNothing ==
  Downloaded =>
    \/ /\ ret.err = <<>>
       /\ AllOk
       /\ ~SomeStatusUnrecognized
       /\ Len(ret.pr) = 1
       /\ ret.pr[1].Statuses = RemoteStatusesInbound
       /\ Range(ret.pr[1].Labels) = rLabels
       /\ Len(ret.pr[1].Labels) = Cardinality(rLabels)
       /\ ret.pr[1].Comments = RemoteCommentsListed
    \/ /\ ret.err # <<>>
       /\ ret.pr = <<>>

\* A Download of the GitLab handler that had fetched the request, the
\* projects and the comments when its fetch of the statuses failed.
C11_Witness ==
  /\ Downloaded
  /\ host = Gitlab
  /\ Len(calls) = 6
  /\ calls[6].op = "GetStatuses" /\ ~calls[6].ok
  /\ rComments # EmptyMap
  /\ rLabels # {}
  /\ dpr # <<>>
  /\ ret.pr = <<>>
  /\ ret.err # <<>>

\* C12: when Download has returned and some remote status has a value that
\* the inbound table lacks, Download returned an error and no model, so no
\* status list; when the statuses were fetched the error is that of an
\* unknown state.
C12_UnknownStateFailsFetch ==
  (Downloaded /\ SomeStatusUnrecognized) =>
    /\ ret.pr = <<>>
    /\ ret.err # <<>>
    /\ AllOk =>
         /\ Len(ret.err) = 1
         /\ ret.err[1].op = "UnknownStatusState"
         /\ ret.err[1].text \notin DOMAIN Inbound(host)

\* A Download whose calls all succeeded against two statuses, the second
\* listed with a value of neither table after one the table has.
C12_Witness ==
  /\ Downloaded
  /\ AllOk
  /\ Len(StatusList(rStatuses)) = 2
  /\ StatusList(rStatuses)[1].State = "success"
  /\ StatusList(rStatuses)[2].State = BogusValue
  /\ ret.pr = <<>>
  /\ ret.err = <<Err("UnknownStatusState", 0, BogusValue)>>

\* The same with the unknown value listed first.
C12_WitnessFirst ==
  /\ Downloaded
  /\ AllOk
  /\ Len(StatusList(rStatuses)) = 2
  /\ StatusList(rStatuses)[1].State = BogusValue
  /\ StatusList(rStatuses)[2].State = "success"
  /\ ret.pr = <<>>

\* An Upload pass of the model Download returned is under way or over.
RoundTrip == ret.pr # <<>> /\ pc # "dl_done"

\* C19: throughout and after an Upload of the model as downloaded, with
\* the manifests of the model, the remote comments and the remote labels
\* are as they were: no comment call is made, no label is removed, the
\* batched add of GitHub carries no label and the update of GitLab sets the
\* labels the remote has.
C19_RoundTripKeepsCommentsAndLabels ==
  RoundTrip =>
    /\ rComments = start.comments
    /\ rLabels = start.labels
    /\ \A n \in 1..Len(calls) :
         /\ calls[n].op \notin {"CreateComment", "EditComment",
                                "DeleteComment", "RemoveLabel"}
         /\ calls[n].op = "AddLabels" => calls[n].labels = {}
         /\ calls[n].op = "UpdateMergeRequest" => calls[n].labels = start.labels

\* Such an Upload, over, against a remote with two comments and a label,
\* that fetched the labels and the comments.
C19_Witness ==
  /\ RoundTrip
  /\ Done
  /\ AllOk
  /\ LabelsFetched
  /\ CommentsFetched
  /\ Cardinality(DOMAIN rComments) = 2
  /\ rLabels # {}
  /\ manifests = [labels |-> rLabels, comments |-> {"1", "2"}]

\* C20: after an Upload of the model as downloaded whose calls all
\* succeeded, every status the remote had has a value v of the inbound
\* table that is the outbound value of its inbound code, and has that value
\* still.
C20_StatusMappingRoundTrips ==
  (RoundTrip /\ Done /\ AllOk) =>
    \A c \in DOMAIN start.statuses :
      LET v == start.statuses[c]
      IN /\ v \in DOMAIN Inbound(host)
         /\ Outbound(host)[Inbound(host)[v]] = v
         /\ c \in DOMAIN rStatuses
         /\ rStatuses[c] = v

\* The first half of C20 on the tables alone: false of the GitLab tables
\* at "running" and at "cancelled".
C20_TablesRoundTrip ==
  \A h \in Hosts : \A v \in DOMAIN Inbound(h) : Outbound(h)[Inbound(h)[v]] = v

\* The same for the GitHub handler, the host on which it holds.
C20_GitHubStatusMappingRoundTrips ==
  /\ \A v \in DOMAIN GitHubToTekton : toGitHub[GitHubToTekton[v]] = v
  /\ (RoundTrip /\ Done /\ AllOk /\ host = GitHub) =>
       rStatuses = start.statuses

\* An Upload of the GitHub handler that set two statuses as downloaded.
C20_GitHubWitness ==
  /\ RoundTrip
  /\ Done
  /\ AllOk
  /\ host = GitHub
  /\ Len(CallsOf("SetStatus")) = 2
  /\ rStatuses = ("ci" :> "pending") @@ ("lint" :> "error")

\* The upload step C17 gives a task with the outputs pointer o.
C27Step(o) ==
  [Name |-> "build-pipeline.knative.dev/uploader",
   Image |-> "gcr.io/something/else",
   Args |-> IF o = <<>> THEN <<>> ELSE C17Args(o[1].Results, o[1].Resources)]

\* C27: after k calls on the same build with the same task the steps of the
\* build are the steps it had before the calls, as they were and in their
\* order, followed by k upload steps, all the same.
C27_EachCallAppendsAStep ==
  build.Steps = build0.Steps \o [n \in 1..ncalls |-> C27Step(task.Outputs)]

\* The same for a task whose Outputs pointer is not nil, the tasks on which
\* it holds; the build the calls return is the build they were given.
C27_EachCallAppendsAStepToOutputs ==
  task.Outputs # <<>> =>
    /\ build.Steps = build0.Steps \o [n \in 1..ncalls |-> C27Step(task.Outputs)]
    /\ ncalls >= 1 => got = <<build>> /\ build # build0

\* Two calls on a build that held two steps, the second of them with the
\* name and the image of the upload step: four steps, the last two the same.
C27_TwoCallsReturned ==
  /\ pc = "outputs_returned"
  /\ ncalls = 2
  /\ task.Outputs # <<>>
  /\ Len(build0.Steps) = 2
  /\ build0.Steps[1].Name = "myname"
  /\ build0.Steps[2].Name = "build-pipeline.knative.dev/uploader"
  /\ Len(build.Steps) = 4
  /\ build.Steps[3] = build.Steps[4]
  /\ build.Steps[3].Args = <<"--resource=myresource,git">>

\* ----------------------------------------------------------- parseGitlabURL
\* The pieces of the path from piece i on are a number: one digit or more.
C26Digits(path, i) ==
  /\ i <= Len(path)
  /\ \A n \in i..Len(path) :
       path[n] \in {"0", "1", "2", "3", "4", "5", "6", "7", "8", "9"}

\* The places i of the path at which its last two segments begin when they
\* are merge_requests/<integer>: piece i is merge_requests, at the start of
\* the path or after a separator, and a separator and a number follow it.
C26Ends(path) ==
  {i \in 1..Len(path) :
     /\ path[i] = "merge_requests"
     /\ i = 1 \/ path[i - 1] = "/"
     /\ i + 1 <= Len(path) /\ path[i + 1] = "/"
     /\ C26Digits(path, i + 2)}

\* The number the digits ds write.
RECURSIVE C26Number(_)
C26Number(ds) ==
  IF ds = <<>> THEN 0
  ELSE LET d == ds[Len(ds)]
           v == CASE d = "0" -> 0 [] d = "1" -> 1 [] d = "2" -> 2
                  [] d = "3" -> 3 [] d = "4" -> 4 [] d = "5" -> 5
                  [] d = "6" -> 6 [] d = "7" -> 7 [] d = "8" -> 8
                  [] d = "9" -> 9
       IN 10 * C26Number(SubSeq(ds, 1, Len(ds) - 1)) + v

\* What C26 says of a URL that has been handed to parseGitlabURL: when its
\* path does not end in merge_requests/<integer>, or url.Parse rejects it,
\* the function returned an error; when the path is /<project>/
\* merge_requests/<n> with a project of one piece or more, it returned the
\* project and the number.
C26Holds ==
  LET path == raw.Path
      ends == C26Ends(path)
  IN /\ (~raw.Valid \/ ends = {}) =>
          /\ pc = "parse_done"
          /\ parsed[1].err # <<>>
     /\ (raw.Valid /\ path # <<>> /\ path[1] = "/") =>
          \A i \in ends :
            i >= 4 =>
              /\ pc = "parse_done"
              /\ parsed[1].err = <<>>
              /\ parsed[1].project = SubSeq(path, 2, i - 2)
              /\ parsed[1].n = C26Number(SubSeq(path, i + 2, Len(path)))

\* C26: it holds of every URL that has been handed to parseGitlabURL.
C26_ParseErrorOrProject ==
  pc \in {"parse_done", "parse_panic"} => C26Holds

\* The same for the URLs whose path is empty or begins with a separator, as
\* the path of every URL with a host does: the URLs on which it holds.
C26_ParseErrorOrProjectOfRootedPath ==
  (/\ pc \in {"parse_done", "parse_panic"}
   /\ raw.Path = <<>> \/ raw.Path[1] = "/") => C26Holds

\* The URL of the package's test with a project two levels deep, parsed.
C26_DeepProjectParsed ==
  /\ pc = "parse_done"
  /\ raw.Valid
  /\ raw.Path = <<"/", "foo", "/", "foo", "/", "merge_requests", "/", "1">>
  /\ parsed[1].err = <<>>
  /\ parsed[1].project = <<"foo", "/", "foo">>
  /\ parsed[1].n = 1

\* ------------------------------------------------- Download after Uploads
\* C21: every value of a host's outbound table is a key of the same host's
\* inbound table, and a Download of a request whose statuses were all
\* written by Upload passes never fails on a status state it does not know.
C21_WrittenStatusesDownload ==
  /\ \A h \in Hosts :
       \A c \in DOMAIN Outbound(h) : Outbound(h)[c] \in DOMAIN Inbound(h)
  /\ Downloaded =>
       \A n \in 1..Len(ret.err) : ret.err[n].op # "UnknownStatusState"

\* A Download after two Upload passes of a Canceled status returned the
\* status that the GitLab handler wrote as cancelled.
C21_Witness ==
  /\ Downloaded
  /\ host = Gitlab
  /\ pass = 2
  /\ pr.Statuses = <<[ID |-> "ci", Code |-> "Canceled"]>>
  /\ rStatuses = [c \in {"ci"} |-> "cancelled"]
  /\ ret.err = <<>>
  /\ ret.pr[1].Statuses = <<[ID |-> "ci", Code |-> "Error"]>>

\* ------------------------------------------- a comment fetch that failed
\* The list call of the comment pass was made and failed.
CommentFetchFailed ==
  \E n \in 1..Len(calls) : calls[n].op = "ListComments" /\ ~calls[n].ok

\* C22: after a comment fetch that failed the pass issues no update and no
\* delete call, and at its end it has issued one create call per desired
\* comment with ID 0, in order, and Upload's error holds the failure of the
\* fetch.
C22_FailedFetchStillCreates ==
  CommentFetchFailed =>
    /\ \A n \in 1..Len(calls) :
         calls[n].op \notin {"EditComment", "DeleteComment"}
    /\ Done =>
         /\ CreatedTexts = NewTexts
         /\ \E n \in 1..Len(uerr) :
              uerr[n] = [op |-> "ListComments", id |-> 0, text |-> ""]

\* A pass whose fetch failed ended: the remote held a comment that the
\* desired set gives another text, and a new comment was created.
C22_Witness ==
  /\ Done
  /\ CommentFetchFailed
  /\ Len(NewTexts) >= 1
  /\ Len(CreatedTexts) = Len(NewTexts)
  /\ \E id \in DesiredIDs \cap DOMAIN start.comments :
       DesiredText(id) # start.comments[id]
  /\ \E id \in DOMAIN rComments : rComments[id] = NewTexts[1]

\* ------------------------------- a desired comment the remote does not hold
\* The nonzero IDs of desired comments that no remote comment had when the
\* pass began.
UnmatchedIDs == DesiredIDs \ DOMAIN start.comments

\* C23: a desired comment with a nonzero ID that no remote comment has
\* causes no remote call and no error: no call and no error of the pass
\* carries its ID, and the create calls are for desired comments with ID 0
\* only, in their order.
C23_UnmatchedCommentIgnored ==
  /\ \A id \in UnmatchedIDs :
       /\ \A n \in 1..Len(calls) : calls[n].id # id
       /\ \A n \in 1..Len(uerr) : uerr[n].id # id
       /\ \A n \in 1..Len(cerr) : cerr[n].id # id
       /\ \A n \in 1..Len(merr) : merr[n].id # id
  /\ UnmatchedIDs # {} =>
       /\ Len(CreatedTexts) <= Len(NewTexts)
       /\ CreatedTexts = SubSeq(NewTexts, 1, Len(CreatedTexts))

\* A pass ended without error whose desired comments were one with an ID
\* the remote lacked and one new comment: one call after the fetch, the
\* create of the new comment.
C23_Witness ==
  /\ Done
  /\ pass = 1
  /\ UnmatchedIDs = {1}
  /\ Len(pr.Comments) = 2
  /\ Len(NewTexts) = 1
  /\ CommentsFetched
  /\ uerr = <<>>
  /\ CreatedTexts = NewTexts
  /\ Len(CallsOf("EditComment")) + Len(CallsOf("DeleteComment")) = 0

\* ------------------------------------------------------ the order of calls
\* The place of a remote call in the order C24 gives: status calls, the
\* label fetch, label mutations, the comment fetch, updates and deletes,
\* creates.
C24Phase(op) ==
  CASE op = "SetStatus" -> 1
    [] op \in {"ListLabels", "GetMergeRequest"} -> 2
    [] op \in {"AddLabels", "RemoveLabel", "UpdateMergeRequest"} -> 3
    [] op = "ListComments" -> 4
    [] op \in {"EditComment", "DeleteComment"} -> 5
    [] op = "CreateComment" -> 6

\* C24: within a pass no call of a later phase precedes a call of an
\* earlier phase, and each of the two fetches is made once at most.
C24_CallsInPhaseOrder ==
  /\ \A m, n \in 1..Len(calls) :
       m < n => C24Phase(calls[m].op) <= C24Phase(calls[n].op)
  /\ \A p \in {2, 4} :
       Cardinality({n \in 1..Len(calls) : C24Phase(calls[n].op) = p}) <= 1

\* A pass ended that made calls of all six phases.
C24_Witness ==
  /\ Done
  /\ {C24Phase(calls[n].op) : n \in 1..Len(calls)} = 1..6

\* ------------------------------------------------- what Upload leaves alone
\* C25: no step of an Upload pass changes the PullRequest or the manifests
\* it was called with, whether or not a call failed, and a pass begins with
\* nothing kept from the pass before it: no error, no fetched label or
\* comment, no label or comment still to handle.
C25_UploadLeavesInputs ==
  [][/\ pr' = pr
     /\ manifests' = manifests
     /\ (pc' = "statuses" /\ calls' = <<>>) =>
          /\ idx' = 1
          /\ uerr' = <<>> /\ cerr' = <<>> /\ merr' = <<>>
          /\ current' = {} /\ create' = {} /\ todo' = {}
          /\ labelNames' = <<>>
          /\ fetched' = <<>>]_vars

\* A second pass of the GitLab handler ended: in both passes the update
\* carried a label that the desired labels lack, and the desired labels
\* are what they were.
C25_Witness ==
  /\ Done
  /\ host = Gitlab
  /\ pass = 2
  /\ pr.Labels = <<"bug">>
  /\ manifests.labels = {}
  /\ start.labels = {"bug", "wip"}
  /\ \E n \in 1..Len(calls) :
       /\ calls[n].op = "UpdateMergeRequest"
       /\ calls[n].labels = {"bug", "wip"}

=============================================================================
